---- MODULE Spec2Model ----
(***************************************************************************)
(* vue-intent: the Intent state machine with its subscriber list, as the   *)
(* repository implements it (createIntent in examples/router/pages/        *)
(* Upload.vue, identical to the createMockIntent factories of the tests),  *)
(* and what attaches to it: the composables useIntent, useIntentState and  *)
(* useIntentNavigation (with its beforeunload handler and its router leave *)
(* guard), the v-intent directive and the IntentGuard component.           *)
(***************************************************************************)
EXTENDS Integers, Sequences, FiniteSets, TLC

\* Bounds of the model.
MaxSubs == 3      \* longest subscriber list explored
MaxRegs == 3      \* registrations made over a run
MaxHistory == 3   \* longest transitions list of useIntentState explored
MaxTicks == 2     \* timer periods counted in one state
MaxSteps == 3     \* longest steps list given to IntentProgress

(***************************************************************************)
(* Types                                                                   *)
(***************************************************************************)
IntentState ==
    {"idle", "started", "in-progress", "waiting", "blocked", "completed", "failed"}

Operations ==
    {"start", "progress", "wait", "block", "complete", "fail", "reset", "replay"}

\* Optional argument of progress/wait/block/fail; the Intent ignores it.
Annotations == {"none", "chunk-1"}
Args(op) ==
    IF op \in {"progress", "wait", "block", "fail"} THEN Annotations ELSE {"none"}

\* Callback functions that get subscribed.  obsA and obsB only record what
\* they are told; obsDetach calls its own unsubscribe handle first and then
\* records; obsReenter records and calls complete() when told "started".
\* obsDetach and obsReenter are closures over their own registration, so
\* each is in the list at most once at a time.  The adapter callbacks are
\* the closures useIntent, useIntentNavigation, useIntentState and the
\* v-intent directive subscribe.
PlainObservers == {"obsA", "obsB"}
ExternalObservers == PlainObservers \cup {"obsDetach", "obsReenter"}
AdapterCallbacks == {"useIntent", "useIntentNavigation", "useIntentState", "vIntent"}
Callbacks == ExternalObservers \cup AdapterCallbacks

VARIABLES
    state,         \* createIntent: let state
    subscribers,   \* createIntent: const subscribers; entries [cb, reg]
    hasSubscribe,  \* whether the Intent object carries subscribe
    protect,       \* what protectNavigation() returns
    issued,        \* issued[r]: the callback registration r was made with
    called,        \* registrations whose unsubscribe handle has been called
    notes,         \* callback invocations made during the latest operation
    lastOp,        \* the latest operation: [kind, op, again]
    ui,            \* useIntent: its refs and lifecycle
    nav,           \* useIntentNavigation: its refs, listener and lifecycle
    ist,           \* useIntentState: its refs, interval and lifecycle
    el,            \* the element a v-intent directive is bound on
    perm,          \* what the permission check behind allowed() answers
    ig,            \* IntentGuard: its props and computed isAllowed
    leave,         \* the latest run of the router leave guard
    unload,        \* what the latest beforeunload event was left with
    app,           \* the Vue application VueIntentPlugin is installed on
    other          \* a second Intent: its state and its subscribers

vars == <<state, subscribers, hasSubscribe, protect, issued, called, notes,
          lastOp, ui, nav, ist, el, perm, ig, leave, unload, app, other>>

\* What no transition and no subscription touches.
page == <<perm, ig, leave, unload, app, other>>

(***************************************************************************)
(* The Intent                                                              *)
(***************************************************************************)
\* A replay() that starts the Intent again instead of returning it to idle.
TargetReplayRestarts(op) ==
    CASE op = "start"    -> "started"
      [] op = "progress" -> "in-progress"
      [] op = "wait"     -> "waiting"
      [] op = "block"    -> "blocked"
      [] op = "complete" -> "completed"
      [] op = "fail"     -> "failed"
      [] op = "reset"    -> "idle"
      [] op = "replay"   -> "started"

Target(op) ==
    CASE op = "start"    -> "started"
      [] op = "progress" -> "in-progress"
      [] op = "wait"     -> "waiting"
      [] op = "block"    -> "blocked"
      [] op = "complete" -> "completed"
      [] op = "fail"     -> "failed"
      [] op = "reset"    -> "idle"
      [] op = "replay"   -> "idle"

isActive(s)    == s = "started" \/ s = "in-progress"
isCompleted(s) == s = "completed"
isFailed(s)    == s = "failed"
isBlocked(s)   == s = "blocked"
isWaiting(s)   == s = "waiting"
allowed        == perm
message(s)     == <<"upload", " is ", s>>

\* Array.prototype.indexOf on the subscriber array (1-based, 0 = not found).
IndexOf(subs, c) ==
    IF \E i \in 1..Len(subs) : subs[i].cb = c
    THEN CHOOSE i \in 1..Len(subs) :
            /\ subs[i].cb = c
            /\ \A j \in 1..(i - 1) : subs[j].cb # c
    ELSE 0

\* subscribers.splice(index, 1)
Splice(subs, i) ==
    [k \in 1..(Len(subs) - 1) |-> IF k < i THEN subs[k] ELSE subs[k + 1]]

\* An unsubscribe closure that leaves the array as it is.
UnsubscribeKeeps(subs, c) == subs

\* The closure subscribe returns: indexOf(callback), then splice if found.
Unsubscribe(subs, c) ==
    LET index == IndexOf(subs, c)
    IN  IF index > 0 THEN Splice(subs, index) ELSE subs

\* subscribers.push(callback)
Push(subs, c, r) == Append(subs, [cb |-> c, reg |-> r])

\* Array.prototype.forEach visits index k only if the array holds it.
Holds(subs, k) == k <= Len(subs)

\* Whether the callback c is in the subscriber list / was called in the
\* latest operation.
Listed(c)  == \E i \in 1..Len(subscribers) : subscribers[i].cb = c
Invoked(c) == \E n \in 1..Len(notes) : notes[n].cb = c

(***************************************************************************)
(* The adapters' refresh functions                                         *)
(***************************************************************************)
\* An updateState that re-reads state() and message() but not allowed().
UpdateStateKeepsAllowed(u, s) ==
    [u EXCEPT !.state = s, !.message = message(s)]

\* useIntent.updateState: re-reads state(), allowed(), message().
UpdateState(u, s) ==
    [u EXCEPT !.state = s, !.allowed = allowed, !.message = message(s)]

\* isActive computed from 'started' alone.
useIntentIsActiveStartedOnly(u) == u.state = "started"

\* The computed refs of useIntent, each a test of its state ref.
useIntentIsActive(u)    == u.state = "started" \/ u.state = "in-progress"
useIntentIsCompleted(u) == u.state = "completed"
useIntentIsFailed(u)    == u.state = "failed"
useIntentIsBlocked(u)   == u.state = "blocked"
useIntentIsWaiting(u)   == u.state = "waiting"

\* useIntentNavigation.sync: re-reads isActive() and protectNavigation().
Sync(n, s, p) ==
    [n EXCEPT !.isActive = isActive(s), !.protectNavigation = p]

\* The computed refs of useIntentNavigation.
protectionActive(n) == n.protectNavigation /\ n.isActive
canLeave(n)         == ~protectionActive(n)

\* An updateState that records every notification, changed state or not.
useIntentStateUpdateStateAlways(t, newState) ==
    [t EXCEPT !.previous = t.current, !.current = newState,
              !.transitions = Append(t.transitions, newState),
              !.elapsed = 0, !.duration = 0]

\* An updateState that pushes the new state but keeps previous as it was.
useIntentStateUpdateStateKeepsPrevious(t, newState) ==
    IF newState # t.current
    THEN [t EXCEPT !.current = newState,
                   !.transitions = Append(t.transitions, newState),
                   !.elapsed = 0, !.duration = 0]
    ELSE t

\* useIntentState.updateState(newState): a state other than the current one
\* becomes current, the old one previous, and is pushed on transitions;
\* stateStartTime becomes now and duration 0.
useIntentStateUpdateState(t, newState) ==
    IF newState # t.current
    THEN [t EXCEPT !.previous = t.current, !.current = newState,
                   !.transitions = Append(t.transitions, newState),
                   !.elapsed = 0, !.duration = 0]
    ELSE t

\* String(b) of a boolean.
String(b) == IF b THEN "true" ELSE "false"

\* classList.add / classList.remove, chosen by a condition.
Toggle(classes, name, on) ==
    IF on THEN classes \cup {name} ELSE classes \ {name}

\* An updateElement whose disabled modifier looks at allowed() only.
updateElementDisabledIgnoresActive(e, s) ==
    LET isAllowedNow == allowed
        isActiveNow  == isActive(s)
    IN  CASE e.arg = "disabled" ->
               [e EXCEPT !.disabled = IF e.hasDisabled THEN ~isAllowedNow ELSE @,
                         !.ariaDisabled = String(~isAllowedNow),
                         !.classes = Toggle(@, "intent-disabled", ~isAllowedNow)]
          [] e.arg = "loading" ->
               [e EXCEPT !.classes = Toggle(@, "intent-loading", isActiveNow),
                         !.ariaBusy = String(isActiveNow)]
          [] e.arg = "hidden" ->
               IF ~isAllowedNow
               THEN [e EXCEPT !.saved = IF e.saved \in {"unset", ""}
                                        THEN e.display ELSE @,
                              !.display = "none",
                              !.ariaHidden = "true"]
               ELSE [e EXCEPT !.display = IF e.saved = "unset" THEN "" ELSE e.saved,
                              !.ariaHidden = "absent"]
          [] OTHER ->
               [e EXCEPT !.disabled = IF e.hasDisabled THEN ~isAllowedNow ELSE @,
                         !.ariaDisabled = String(~isAllowedNow),
                         !.classes = Toggle(Toggle(@, "intent-disabled", ~isAllowedNow),
                                            "intent-active", isActiveNow)]

\* v-intent updateElement(el, binding): reads allowed() and isActive() and
\* writes the element as the directive's argument says.  disabled is the
\* element's property, written only if the element has one; saved is
\* _intentOriginalDisplay ("unset" while the element has no such field).
updateElement(e, s) ==
    LET isAllowedNow == allowed
        isActiveNow  == isActive(s)
    IN  CASE e.arg = "disabled" ->
               [e EXCEPT !.disabled = IF e.hasDisabled
                                      THEN ~isAllowedNow \/ isActiveNow ELSE @,
                         !.ariaDisabled = String(~isAllowedNow \/ isActiveNow),
                         !.classes = Toggle(@, "intent-disabled",
                                            ~isAllowedNow \/ isActiveNow)]
          [] e.arg = "loading" ->
               [e EXCEPT !.classes = Toggle(@, "intent-loading", isActiveNow),
                         !.ariaBusy = String(isActiveNow)]
          [] e.arg = "hidden" ->
               IF ~isAllowedNow
               THEN [e EXCEPT !.saved = IF e.saved \in {"unset", ""}
                                        THEN e.display ELSE @,
                              !.display = "none",
                              !.ariaHidden = "true"]
               ELSE [e EXCEPT !.display = IF e.saved = "unset" THEN "" ELSE e.saved,
                              !.ariaHidden = "absent"]
          [] OTHER ->
               [e EXCEPT !.disabled = IF e.hasDisabled THEN ~isAllowedNow ELSE @,
                         !.ariaDisabled = String(~isAllowedNow),
                         !.classes = Toggle(Toggle(@, "intent-disabled", ~isAllowedNow),
                                            "intent-active", isActiveNow)]

(***************************************************************************)
(* Fan-out.  A world w is the part of the program a transition can touch:  *)
(* [state, subs, called, notes, ui, nav, ist, el, protect], and last: the  *)
(* target of the transition method entered most recently.                  *)
(***************************************************************************)
\* One callback invocation: arg is the value of state passed, trig the
\* target of the transition whose forEach made the call.
Note(e, w, trig) ==
    [cb |-> e.cb, reg |-> e.reg, arg |-> w.state, trig |-> trig, last |-> w.last]

RECURSIVE ForEach(_, _, _, _)
RECURSIVE Invoke(_, _, _)
RECURSIVE Transition(_, _)

\* cb(state) for the entry e, with state read at the time of the call.
Invoke(e, w, trig) ==
    LET noted == [w EXCEPT !.notes = Append(w.notes, Note(e, w, trig))]
    IN  CASE e.cb \in PlainObservers -> noted
          [] e.cb = "obsDetach" ->
                [w EXCEPT !.subs = Unsubscribe(w.subs, e.cb),
                          !.called = w.called \cup {e.reg},
                          !.notes = Append(w.notes, Note(e, w, trig))]
          [] e.cb = "obsReenter" ->
                IF w.state = "started"
                THEN Transition("complete", noted)
                ELSE noted
          [] e.cb = "useIntent" ->
                [noted EXCEPT !.ui = UpdateState(w.ui, w.state)]
          [] e.cb = "useIntentNavigation" ->
                [noted EXCEPT !.nav = Sync(w.nav, w.state, w.protect)]
          [] e.cb = "useIntentState" ->
                [noted EXCEPT !.ist = useIntentStateUpdateState(w.ist, w.state)]
          [] e.cb = "vIntent" ->
                [noted EXCEPT !.el = updateElement(w.el, w.state)]

\* forEach written as a loop that starts one index too late.
ForEachFromSecond(w, k, len, trig) ==
    IF k + 1 > len THEN w
    ELSE IF ~Holds(w.subs, k + 1) THEN ForEach(w, k + 1, len, trig)
    ELSE ForEach(Invoke(w.subs[k + 1], w, trig), k + 1, len, trig)

\* subscribers.forEach(cb => cb(state)): indices 0..len-1 with len taken
\* when forEach starts; an index the array no longer holds is passed over.
ForEach(w, k, len, trig) ==
    IF k > len THEN w
    ELSE IF ~Holds(w.subs, k) THEN ForEach(w, k + 1, len, trig)
    ELSE ForEach(Invoke(w.subs[k], w, trig), k + 1, len, trig)

\* A transition method that rejects complete() on an idle Intent.
TransitionGuarded(op, w) ==
    IF op = "complete" /\ w.state = "idle" THEN w
    ELSE LET assigned == [w EXCEPT !.state = Target(op), !.last = Target(op)]
         IN  ForEach(assigned, 1, Len(assigned.subs), Target(op))

\* A transition method that fans out before it assigns the target.
TransitionNotifyFirst(op, w) ==
    LET fanned == ForEach([w EXCEPT !.last = Target(op)], 1, Len(w.subs), Target(op))
    IN  [fanned EXCEPT !.state = Target(op)]

\* A transition method: assign the target state, then fan out.
Transition(op, w) ==
    LET assigned == [w EXCEPT !.state = Target(op), !.last = Target(op)]
    IN  ForEach(assigned, 1, Len(assigned.subs), Target(op))

\* subscribe that calls the callback once with the current state.
SubscribeAndNotify(w, c, r) ==
    LET pushed == [w EXCEPT !.subs = Push(w.subs, c, r)]
    IN  Invoke([cb |-> c, reg |-> r], pushed, w.state)

\* subscribe(callback): push, and hand back the unsubscribe closure.
SubscribeFn(w, c, r) == [w EXCEPT !.subs = Push(w.subs, c, r)]

World ==
    [state |-> state, subs |-> subscribers, called |-> called,
     notes |-> << >>, ui |-> ui, nav |-> nav, ist |-> ist, el |-> el,
     protect |-> protect, last |-> state]

\* Writes a world back to the variables.
Commit(w) ==
    /\ state' = w.state
    /\ subscribers' = w.subs
    /\ called' = w.called
    /\ notes' = w.notes
    /\ ui' = w.ui
    /\ nav' = w.nav
    /\ ist' = w.ist
    /\ el' = w.el

\* kind: which operation ran last; op: the transition method, if any;
\* again: an unsubscribe handle was called that had been called before.
Record(kind, op, again) == [kind |-> kind, op |-> op, again |-> again]

(***************************************************************************)
(* Initial state: createIntent(id), no adapter attached yet.               *)
(***************************************************************************)
\* status: "none" before the composable is called, "mounted" when called in
\* a component's setup, "detached" when called outside any component,
\* "unmounted" after the component's onUnmounted hook ran.
NoUi  == [status |-> "none", state |-> "idle", allowed |-> TRUE,
          message |-> message("idle")]
\* listener: handleBeforeUnload is on the window; guard: the leave guard
\* is registered with the router.
NoNav == [status |-> "none", isActive |-> FALSE, protectNavigation |-> FALSE,
          listener |-> FALSE, guard |-> FALSE]
\* interval: the duration timer is running; elapsed: Date.now() -
\* stateStartTime, and duration: the ref, both in timer periods of 100 ms.
NoIst == [status |-> "none", current |-> "idle", previous |-> "null",
          transitions |-> << >>, interval |-> FALSE,
          elapsed |-> 0, duration |-> 0]
\* handle: the element carries _intentUnsubscribe; styled: the inline
\* display the element was created with; bound: the Intent in the binding
\* of the latest hook ("intent", "other", or "none" for no value).
NoEl  == [status |-> "none", arg |-> "default", hasDisabled |-> FALSE,
          disabled |-> FALSE, ariaDisabled |-> "absent", ariaBusy |-> "absent",
          ariaHidden |-> "absent", classes |-> {}, display |-> "",
          styled |-> "", saved |-> "unset", handle |-> FALSE, bound |-> "none"]
\* fallback: the fallback prop ("undefined" if not passed); hasFallback:
\* the parent fills the fallback slot; shown: the slot the latest render
\* put out; content: what that render put in its place.
NoIg  == [status |-> "none", invert |-> FALSE, fallback |-> "undefined",
          hasFallback |-> FALSE, isAllowed |-> FALSE,
          shown |-> "none", content |-> << >>]
\* pc: where the latest run of the leave guard stands; calls: what it has
\* called so far, in order; before / after: whether onBeforeLeave /
\* onAfterLeave were given; answer: what window.confirm returned in this
\* run ("none" while it has not been asked).
NoLeave == [pc |-> "none", calls |-> << >>, before |-> FALSE, after |-> FALSE,
            answer |-> "none"]
NoUnload == [prevented |-> FALSE, returnValue |-> "unset", returned |-> "undefined"]
\* components / directives: the registrations as <<name, what>>; provided:
\* the keys given to app.provide, config and router: their values; args:
\* the options install was called with.
NoOptions == [components |-> [given |-> FALSE, prefix |-> "undefined"],
              router |-> "undefined"]
NoApp == [installed |-> FALSE, args |-> NoOptions, components |-> {},
          directives |-> {}, provided |-> {}, config |-> NoOptions,
          router |-> "undefined"]

Init ==
    /\ state = "idle"
    /\ subscribers = << >>
    /\ hasSubscribe \in BOOLEAN
    /\ protect \in BOOLEAN
    /\ issued = << >>
    /\ called = {}
    /\ notes = << >>
    /\ lastOp = Record("create", "none", FALSE)
    /\ ui = NoUi
    /\ nav = NoNav
    /\ ist = NoIst
    /\ el = NoEl
    /\ perm = TRUE
    /\ ig = NoIg
    /\ leave = NoLeave
    /\ unload = NoUnload
    /\ app = NoApp
    /\ other = [state |-> "idle", subs |-> << >>]

(***************************************************************************)
(* Operations on the Intent                                                *)
(***************************************************************************)
\* intent.subscribe(callback) by an external observer.
Subscribe(c) ==
    /\ hasSubscribe
    /\ Len(subscribers) < MaxSubs
    /\ Len(issued) < MaxRegs
    /\ c \in PlainObservers \/ \A i \in 1..Len(subscribers) : subscribers[i].cb # c
    /\ Commit(SubscribeFn(World, c, Len(issued) + 1))
    /\ issued' = Append(issued, c)
    /\ lastOp' = Record("subscribe", "none", FALSE)
    /\ UNCHANGED <<hasSubscribe, protect, page>>

\* Calling the unsubscribe handle an external observer got for registration r.
CallHandle(r) ==
    /\ issued[r] \in ExternalObservers
    /\ subscribers' = Unsubscribe(subscribers, issued[r])
    /\ called' = called \cup {r}
    /\ notes' = << >>
    /\ lastOp' = Record("unsubscribe", "none", r \in called)
    /\ UNCHANGED <<state, hasSubscribe, protect, issued, ui, nav, ist, el, page>>

\* intent.start(), intent.progress(step), ... called on the Intent itself.
\* While useIntentState is subscribed, calls stop when its transitions list
\* has reached MaxHistory.
IntentCall(op, a) ==
    /\ Listed("useIntentState") => Len(ist.transitions) < MaxHistory
    /\ Commit(Transition(op, World))
    /\ lastOp' = Record("transition", op, FALSE)
    /\ UNCHANGED <<hasSubscribe, protect, issued, page>>

(***************************************************************************)
(* useIntent                                                               *)
(***************************************************************************)
\* useIntent(intent): read the Intent, subscribe if it can be subscribed to,
\* register the unmount hook if there is a component instance.
UseIntent(inComponent) ==
    /\ ui.status = "none"
    /\ hasSubscribe => Len(subscribers) < MaxSubs
    /\ LET made == [World EXCEPT !.ui =
                        [status |-> IF inComponent THEN "mounted" ELSE "detached",
                         state |-> state, allowed |-> allowed,
                         message |-> message(state)]]
       IN  IF hasSubscribe
           THEN /\ Commit(SubscribeFn(made, "useIntent", Len(issued) + 1))
                /\ issued' = Append(issued, "useIntent")
           ELSE /\ Commit(made)
                /\ UNCHANGED issued
    /\ lastOp' = Record("useIntent", "none", FALSE)
    /\ UNCHANGED <<hasSubscribe, protect, page>>

\* The wrapper methods useIntent returns: intent.op(arg); updateState().
UseIntentCall(op, a) ==
    /\ ui.status # "none"
    /\ Listed("useIntentState") => Len(ist.transitions) < MaxHistory
    /\ LET w == Transition(op, World)
       IN  Commit([w EXCEPT !.ui = UpdateState(w.ui, w.state)])
    /\ lastOp' = Record("wrapper", op, FALSE)
    /\ UNCHANGED <<hasSubscribe, protect, issued, page>>

\* onUnmounted of the component that called useIntent.
UseIntentUnmounted ==
    /\ ui.status = "mounted"
    /\ ui' = [ui EXCEPT !.status = "unmounted"]
    /\ subscribers' = IF hasSubscribe THEN Unsubscribe(subscribers, "useIntent")
                      ELSE subscribers
    /\ notes' = << >>
    /\ lastOp' = Record("unmount", "none", FALSE)
    /\ UNCHANGED <<state, hasSubscribe, protect, issued, called, nav, ist, el, page>>

(***************************************************************************)
(* useIntentNavigation                                                     *)
(***************************************************************************)
\* onBeforeRouteLeave called without try / catch: if it throws,
\* useIntentNavigation throws and returns nothing.
RegisterGuardUncaught(n, routerOk) ==
    IF routerOk THEN [n EXCEPT !.guard = TRUE] ELSE [n EXCEPT !.status = "threw"]

\* try { onBeforeRouteLeave(guard) } catch { }: the guard is registered
\* unless the call throws.
TryRegisterGuard(n, routerOk) == [n EXCEPT !.guard = routerOk]

\* useIntentNavigation(intent): read isActive() and protectNavigation(),
\* subscribe if possible, add the beforeunload listener, register the
\* unmount hook if there is a component instance, then register the leave
\* guard with the router; if that throws (routerOk false) the error is
\* caught and no guard is registered.
UseIntentNavigation(inComponent, routerOk) ==
    /\ nav.status = "none"
    /\ hasSubscribe => Len(subscribers) < MaxSubs
    /\ LET made == [World EXCEPT !.nav = TryRegisterGuard(
                        [status |-> IF inComponent THEN "mounted" ELSE "detached",
                         isActive |-> isActive(state),
                         protectNavigation |-> protect, listener |-> TRUE,
                         guard |-> FALSE], routerOk)]
       IN  IF hasSubscribe
           THEN /\ Commit(SubscribeFn(made, "useIntentNavigation", Len(issued) + 1))
                /\ issued' = Append(issued, "useIntentNavigation")
           ELSE /\ Commit(made)
                /\ UNCHANGED issued
    /\ lastOp' = Record("useIntentNavigation", "none", FALSE)
    /\ UNCHANGED <<hasSubscribe, protect, page>>

\* onUnmounted of the component that called useIntentNavigation.
UseIntentNavigationUnmounted ==
    /\ nav.status = "mounted"
    /\ nav' = [nav EXCEPT !.status = "unmounted", !.listener = FALSE]
    /\ subscribers' = IF hasSubscribe
                      THEN Unsubscribe(subscribers, "useIntentNavigation")
                      ELSE subscribers
    /\ notes' = << >>
    /\ lastOp' = Record("unmount", "none", FALSE)
    /\ UNCHANGED <<state, hasSubscribe, protect, issued, called, ui, ist, el, page>>

\* The window fires beforeunload: every registered handleBeforeUnload runs.
\* It reads the computed protectionActive and does not call sync().
confirmMessage == "An operation is in progress. Are you sure you want to leave?"

handleBeforeUnload(n) ==
    IF protectionActive(n)
    THEN [prevented |-> TRUE, returnValue |-> confirmMessage,
          returned |-> confirmMessage]
    ELSE NoUnload

BeforeUnload ==
    /\ nav.listener
    /\ unload' = handleBeforeUnload(nav)
    /\ notes' = << >>
    /\ lastOp' = Record("beforeunload", "none", FALSE)
    /\ UNCHANGED <<state, subscribers, hasSubscribe, protect, issued, called,
                   ui, nav, ist, el, perm, ig, leave, app, other>>

\* What window.confirm returned, as the run of the guard records it.
Answer(confirmed) == IF confirmed THEN "confirmed" ELSE "cancelled"

\* A guard that calls onAfterLeave whatever window.confirm answers.
ConfirmThenAlwaysAfter(calls, after, confirmed) ==
    calls \o <<"confirm">> \o (IF after THEN <<"onAfterLeave">> ELSE << >>) \o
        (IF confirmed THEN <<"next()">> ELSE <<"next(false)">>)

\* What the guard does once it shows the confirmation: window.confirm, then
\* onAfterLeave (if given) and next() when confirmed, next(false) when not.
Confirm(calls, after, confirmed) ==
    calls \o <<"confirm">> \o
        (IF confirmed
         THEN (IF after THEN <<"onAfterLeave">> ELSE << >>) \o <<"next()">>
         ELSE <<"next(false)">>)

\* A leave guard that decides on the refs as the last notification left
\* them, without calling sync().
BeforeRouteLeaveNoSync(before, after, confirmed) ==
    /\ nav.guard
    /\ leave.pc # "awaiting"
    /\ leave' =
          IF ~protectionActive(nav)
          THEN [pc |-> "done", before |-> before, after |-> after,
                answer |-> "none",
                calls |-> (IF after THEN <<"onAfterLeave">> ELSE << >>)
                             \o <<"next()">>]
          ELSE IF before
          THEN [pc |-> "awaiting", before |-> before, after |-> after,
                answer |-> "none",
                calls |-> <<"onBeforeLeave">>]
          ELSE [pc |-> "done", before |-> before, after |-> after,
                answer |-> Answer(confirmed),
                calls |-> Confirm(<< >>, after, confirmed)]
    /\ notes' = << >>
    /\ lastOp' = Record("routeLeave", "none", FALSE)
    /\ UNCHANGED <<state, subscribers, hasSubscribe, protect, issued, called,
                   ui, nav, ist, el, perm, ig, unload, app, other>>

\* The router calls the leave guard.  before / after: whether onBeforeLeave /
\* onAfterLeave were given in the options; confirmed: what window.confirm
\* answers if it is asked now.  The guard calls sync() first; with
\* onBeforeLeave given and protection active it stops at the await.
BeforeRouteLeave(before, after, confirmed) ==
    /\ nav.guard
    /\ leave.pc # "awaiting"
    /\ LET synced == Sync(nav, state, protect)
       IN  /\ nav' = synced
           /\ leave' =
                 IF ~protectionActive(synced)
                 THEN [pc |-> "done", before |-> before, after |-> after,
                       answer |-> "none",
                       calls |-> (IF after THEN <<"onAfterLeave">> ELSE << >>)
                                    \o <<"next()">>]
                 ELSE IF before
                 THEN [pc |-> "awaiting", before |-> before, after |-> after,
                       answer |-> "none",
                       calls |-> <<"onBeforeLeave">>]
                 ELSE [pc |-> "done", before |-> before, after |-> after,
                       answer |-> Answer(confirmed),
                       calls |-> Confirm(<< >>, after, confirmed)]
    /\ notes' = << >>
    /\ lastOp' = Record("routeLeave", "none", FALSE)
    /\ UNCHANGED <<state, subscribers, hasSubscribe, protect, issued, called,
                   ui, ist, el, perm, ig, unload, app, other>>

\* The promise onBeforeLeave returned settles and the guard resumes after
\* the await: a rejection ends the guard there, a resolution goes on to the
\* confirmation.
BeforeLeaveSettled(resolved, confirmed) ==
    /\ leave.pc = "awaiting"
    /\ leave' = IF resolved
                THEN [leave EXCEPT !.pc = "done",
                                   !.answer = Answer(confirmed),
                                   !.calls = Confirm(leave.calls, leave.after, confirmed)]
                ELSE [leave EXCEPT !.pc = "rejected"]
    /\ notes' = << >>
    /\ lastOp' = Record("routeLeaveResumed", "none", FALSE)
    /\ UNCHANGED <<state, subscribers, hasSubscribe, protect, issued, called,
                   ui, nav, ist, el, perm, ig, unload, app, other>>

(***************************************************************************)
(* useIntentState                                                          *)
(***************************************************************************)
\* useIntentState with a transitions list that starts empty.
useIntentStateRefsNoHistory(inComponent, s) ==
    [status |-> IF inComponent THEN "mounted" ELSE "detached",
     current |-> s, previous |-> "null", transitions |-> << >>,
     interval |-> TRUE, elapsed |-> 0, duration |-> 0]

\* The refs useIntentState creates from intent.state().
useIntentStateRefs(inComponent, s) ==
    [status |-> IF inComponent THEN "mounted" ELSE "detached",
     current |-> s, previous |-> "null", transitions |-> <<s>>,
     interval |-> TRUE, elapsed |-> 0, duration |-> 0]

\* useIntentState(intent): read the Intent, start the duration timer,
\* subscribe if possible, register the unmount hook if there is a component
\* instance.
UseIntentState(inComponent) ==
    /\ ist.status = "none"
    /\ LET made == [World EXCEPT !.ist = useIntentStateRefs(inComponent, state)]
       IN  IF hasSubscribe
           THEN /\ Commit(SubscribeFn(made, "useIntentState", Len(issued) + 1))
                /\ issued' = Append(issued, "useIntentState")
           ELSE /\ Commit(made)
                /\ UNCHANGED issued
    /\ lastOp' = Record("useIntentState", "none", FALSE)
    /\ UNCHANGED <<hasSubscribe, protect, page>>

\* onUnmounted of the component that called useIntentState.
UseIntentStateUnmounted ==
    /\ ist.status = "mounted"
    /\ ist' = [ist EXCEPT !.status = "unmounted", !.interval = FALSE]
    /\ subscribers' = IF hasSubscribe
                      THEN Unsubscribe(subscribers, "useIntentState")
                      ELSE subscribers
    /\ notes' = << >>
    /\ lastOp' = Record("unmount", "none", FALSE)
    /\ UNCHANGED <<state, hasSubscribe, protect, issued, called, ui, nav, el, page>>

\* One period of the duration timer passes and its callback runs: it
\* writes duration only while the Intent is active.
Tick ==
    /\ ist.interval
    /\ ist.elapsed < MaxTicks
    /\ ist' = [ist EXCEPT !.elapsed = @ + 1,
                          !.duration = IF isActive(state) THEN ist.elapsed + 1 ELSE @]
    /\ notes' = << >>
    /\ lastOp' = Record("tick", "none", FALSE)
    /\ UNCHANGED <<state, subscribers, hasSubscribe, protect, issued, called,
                   ui, nav, el, page>>

(***************************************************************************)
(* IntentMessage: computed values over the refs of its useIntent and its   *)
(* showWhen prop.                                                          *)
(***************************************************************************)
ShowWhen == {"always", "active", "blocked", "failed"}

shouldShow(showWhen, u) ==
    CASE showWhen = "active"  -> useIntentIsActive(u)
      [] showWhen = "blocked" -> useIntentIsBlocked(u)
      [] showWhen = "failed"  -> useIntentIsFailed(u)
      [] OTHER                -> TRUE

displayMessage(u) == u.message

(***************************************************************************)
(* IntentProgress: computed values over the current of its useIntentState  *)
(* and the length of its steps prop.                                       *)
(***************************************************************************)
\* Math.round(num / den * 100) for den > 0: halves go up.
MathRound(num, den) == (200 * num + den) \div (2 * den)

hasSteps(n) == n > 0

currentStepIndex(current, n) ==
    IF current = "idle" THEN -1
    ELSE IF current = "completed" THEN n
    ELSE 0

progressPercentage(current, n) ==
    IF ~hasSteps(n)
    THEN CASE current = "idle"        -> 0
           [] current = "started"     -> 25
           [] current = "in-progress" -> 50
           [] current = "waiting"     -> 50
           [] current = "completed"   -> 100
           [] current = "failed"      -> 0
           [] OTHER                   -> 0
    ELSE MathRound(currentStepIndex(current, n), n)

\* getStepClass(index), without the intent-progress__step-- prefix.
getStepClass(current, n, index) ==
    IF index < currentStepIndex(current, n) THEN "completed"
    ELSE IF index = currentStepIndex(current, n) THEN "active"
    ELSE "pending"

(***************************************************************************)
(* The v-intent directive                                                  *)
(***************************************************************************)
\* The modifiers of the directive and what the bound elements look like.
Modifiers == {"default", "disabled", "loading", "hidden"}
Displays == {"", "inline-block"}

\* mounted(el, binding): update the element, then subscribe if possible and
\* keep the handle on the element.
VIntentMounted(arg, hasDisabled, display) ==
    /\ el.status = "none"
    /\ LET fresh == [NoEl EXCEPT !.status = "mounted", !.arg = arg,
                                 !.hasDisabled = hasDisabled, !.display = display,
                                 !.styled = display, !.bound = "intent"]
           made == [World EXCEPT !.el = [updateElement(fresh, state)
                                            EXCEPT !.handle = hasSubscribe]]
       IN  IF hasSubscribe
           THEN /\ Commit(SubscribeFn(made, "vIntent", Len(issued) + 1))
                /\ issued' = Append(issued, "vIntent")
           ELSE /\ Commit(made)
                /\ UNCHANGED issued
    /\ lastOp' = Record("vIntentMounted", "none", FALSE)
    /\ UNCHANGED <<hasSubscribe, protect, page>>

\* updateElement(el, binding) for a binding whose value is the Intent
\* named: nothing for no value, else the element written from that Intent.
Updated(e, bound) ==
    CASE bound = "none"  -> [e EXCEPT !.bound = bound]
      [] bound = "other" -> updateElement([e EXCEPT !.bound = bound], other.state)
      [] OTHER           -> updateElement([e EXCEPT !.bound = bound], state)

\* mounted(el, binding) with a binding that has no value: it returns at
\* once, nothing is written and nothing subscribed.
VIntentMountedUnbound(arg, hasDisabled, display) ==
    /\ el.status = "none"
    /\ el' = [NoEl EXCEPT !.status = "mounted", !.arg = arg,
                          !.hasDisabled = hasDisabled, !.display = display,
                          !.styled = display]
    /\ notes' = << >>
    /\ lastOp' = Record("vIntentMounted", "none", FALSE)
    /\ UNCHANGED <<state, subscribers, hasSubscribe, protect, issued, called,
                   ui, nav, ist, page>>

\* updated(el, binding) with another Intent in the binding than before:
\* the element is written from the new one; no subscription is made or
\* given up.
VIntentRebound(bound) ==
    /\ el.status = "mounted"
    /\ bound # el.bound
    /\ el' = Updated(el, bound)
    /\ notes' = << >>
    /\ lastOp' = Record("vIntentRebound", "none", FALSE)
    /\ UNCHANGED <<state, subscribers, hasSubscribe, protect, issued, called,
                   ui, nav, ist, page>>

\* A transition method of the second Intent: assign the target, then call
\* its subscribers; a directive callback among them writes the element
\* from the Intent of the binding it was made with.
OtherCall(op) ==
    /\ other' = [other EXCEPT !.state = Target(op)]
    /\ el' = IF \E i \in 1..Len(other.subs) : other.subs[i].cb = "vIntent"
             THEN updateElement(el, Target(op)) ELSE el
    /\ notes' = << >>
    /\ lastOp' = Record("otherTransition", op, FALSE)
    /\ UNCHANGED <<state, subscribers, hasSubscribe, protect, issued, called,
                   ui, nav, ist, perm, ig, leave, unload, app>>

\* An updated hook that subscribes again on every render.
VIntentUpdatedResubscribes ==
    /\ el.status = "mounted"
    /\ el' = updateElement(el, state)
    /\ subscribers' = IF hasSubscribe /\ Len(subscribers) < MaxSubs
                      THEN Push(subscribers, "vIntent", Len(issued) + 1)
                      ELSE subscribers
    /\ issued' = IF hasSubscribe /\ Len(subscribers) < MaxSubs
                 THEN Append(issued, "vIntent") ELSE issued
    /\ notes' = << >>
    /\ lastOp' = Record("vIntentUpdated", "none", FALSE)
    /\ UNCHANGED <<state, hasSubscribe, protect, called, ui, nav, ist, page>>

\* updated(el, binding): the component rendered again.
VIntentUpdated ==
    /\ el.status = "mounted"
    /\ el' = Updated(el, el.bound)
    /\ notes' = << >>
    /\ lastOp' = Record("vIntentUpdated", "none", FALSE)
    /\ UNCHANGED <<state, subscribers, hasSubscribe, protect, issued, called,
                   ui, nav, ist, page>>

\* A beforeUnmount that deletes the handle without calling it.
VIntentBeforeUnmountKeepsSubscription ==
    /\ el.status = "mounted"
    /\ el' = [el EXCEPT !.status = "unmounted", !.handle = FALSE,
                        !.saved = "unset"]
    /\ notes' = << >>
    /\ lastOp' = Record("unmount", "none", FALSE)
    /\ UNCHANGED <<state, subscribers, hasSubscribe, protect, issued, called,
                   ui, nav, ist, page>>

\* beforeUnmount(el): call and delete the handle, delete the saved display.
VIntentBeforeUnmount ==
    /\ el.status = "mounted"
    /\ el' = [el EXCEPT !.status = "unmounted", !.handle = FALSE,
                        !.saved = "unset"]
    /\ subscribers' = IF el.handle THEN Unsubscribe(subscribers, "vIntent")
                      ELSE subscribers
    /\ notes' = << >>
    /\ lastOp' = Record("unmount", "none", FALSE)
    /\ UNCHANGED <<state, hasSubscribe, protect, issued, called, ui, nav, ist, page>>

(***************************************************************************)
(* Permission and IntentGuard                                              *)
(***************************************************************************)
\* The permission behind allowed() changes; the Intent is not told.
PermissionChange(b) ==
    /\ perm # b
    /\ perm' = b
    /\ notes' = << >>
    /\ lastOp' = Record("permission", "none", FALSE)
    /\ UNCHANGED <<state, subscribers, hasSubscribe, protect, issued, called,
                   ui, nav, ist, el, ig, leave, unload, app, other>>

\* The getter of the computed isAllowed: allowed(), negated under invert.
isAllowedGetter(invert) == IF invert THEN ~allowed ELSE allowed

\* The slot the template puts out for a value of isAllowed.
Slot(isAllowedValue) == IF isAllowedValue THEN "default" ELSE "fallback"

\* The computed fallbackMessage: props.fallback || the default text.
defaultMessage == "You don't have permission to perform this action"
fallbackMessage(fallback) ==
    IF fallback \in {"undefined", ""} THEN defaultMessage ELSE fallback

\* What the template renders: the default slot, or the fallback slot as
\* the parent filled it, or that slot's own content, the message.
Content(isAllowedValue, hasFallback, fallback) ==
    IF isAllowedValue THEN <<"slot", "default">>
    ELSE IF hasFallback THEN <<"slot", "fallback">>
    ELSE <<"div.intent-guard-fallback", fallbackMessage(fallback)>>

\* The values of the fallback prop tried.
Fallbacks == {"undefined", "", "Custom message"}

\* IntentGuard is set up and rendered for the first time: the computed
\* isAllowed runs its getter and keeps the value.
IntentGuardMounted(invert, fallback, hasFallback) ==
    /\ ig.status = "none"
    /\ ig' = [status |-> "mounted", invert |-> invert, fallback |-> fallback,
              hasFallback |-> hasFallback,
              isAllowed |-> isAllowedGetter(invert),
              shown |-> Slot(isAllowedGetter(invert)),
              content |-> Content(isAllowedGetter(invert), hasFallback, fallback)]
    /\ notes' = << >>
    /\ lastOp' = Record("guardMounted", "none", FALSE)
    /\ UNCHANGED <<state, subscribers, hasSubscribe, protect, issued, called,
                   ui, nav, ist, el, perm, leave, unload, app, other>>

\* IntentGuard renders again with the same props: the getter read
\* nothing reactive but the props, so the computed hands out the value it
\* kept.
IntentGuardRendered ==
    /\ ig.status = "mounted"
    /\ ig' = [ig EXCEPT !.shown = Slot(ig.isAllowed),
                        !.content = Content(ig.isAllowed, ig.hasFallback, ig.fallback)]
    /\ notes' = << >>
    /\ lastOp' = Record("guardRendered", "none", FALSE)
    /\ UNCHANGED <<state, subscribers, hasSubscribe, protect, issued, called,
                   ui, nav, ist, el, perm, leave, unload, app, other>>

\* The parent passes new values of invert and fallback and IntentGuard
\* renders again: the computed isAllowed runs its getter only if invert,
\* which the getter read, has changed.
IntentGuardPropsChanged(invert, fallback) ==
    /\ ig.status = "mounted"
    /\ <<invert, fallback>> # <<ig.invert, ig.fallback>>
    /\ LET value == IF invert # ig.invert THEN isAllowedGetter(invert)
                    ELSE ig.isAllowed
       IN  ig' = [ig EXCEPT !.invert = invert, !.fallback = fallback,
                            !.isAllowed = value, !.shown = Slot(value),
                            !.content = Content(value, ig.hasFallback, fallback)]
    /\ notes' = << >>
    /\ lastOp' = Record("guardProps", "none", FALSE)
    /\ UNCHANGED <<state, subscribers, hasSubscribe, protect, issued, called,
                   ui, nav, ist, el, perm, leave, unload, app, other>>

(***************************************************************************)
(* VueIntentPlugin                                                         *)
(***************************************************************************)
\* The options tried: components absent or given with a prefix (absent,
\* the default's own value, another one, the empty string), router absent
\* or given.
Prefixes == {"undefined", "Intent", "My", ""}
Routers  == {"undefined", "router"}
PluginOptions ==
    {[components |-> c, router |-> r] :
        c \in {NoOptions.components} \cup
              {[given |-> TRUE, prefix |-> p] : p \in Prefixes},
        r \in Routers}

\* An install that provides vueIntentRouter whether a router was passed
\* or not.
installProvidesRouterAlways(a, options) ==
    LET prefix == IF options.components.prefix = "undefined" THEN "Intent"
                  ELSE options.components.prefix
    IN  [a EXCEPT
           !.installed = TRUE, !.args = options,
           !.components = @ \cup {<<<<prefix, "Guard">>, "IntentGuard">>,
                                  <<<<prefix, "Message">>, "IntentMessage">>,
                                  <<<<prefix, "Progress">>, "IntentProgress">>},
           !.directives = @ \cup {<<"intent", "vIntent">>},
           !.provided = @ \cup {"vueIntentRouter", "vueIntentConfig"},
           !.router = options.router,
           !.config = options]

\* install(app, options = {}): the prefix defaults to 'Intent' when
\* components or components.prefix is undefined; a name is the prefix
\* followed by the component's own name.
install(a, options) ==
    LET router == options.router
        prefix == IF options.components.prefix = "undefined" THEN "Intent"
                  ELSE options.components.prefix
    IN  [a EXCEPT
           !.installed = TRUE, !.args = options,
           !.components = @ \cup {<<<<prefix, "Guard">>, "IntentGuard">>,
                                  <<<<prefix, "Message">>, "IntentMessage">>,
                                  <<<<prefix, "Progress">>, "IntentProgress">>},
           !.directives = @ \cup {<<"intent", "vIntent">>},
           !.provided = @ \cup (IF router # "undefined"
                                THEN {"vueIntentRouter"} ELSE {})
                         \cup {"vueIntentConfig"},
           !.router = IF router # "undefined" THEN router ELSE @,
           !.config = options]

\* app.use(VueIntentPlugin, options): Vue installs a plugin once.
Install(options) ==
    /\ ~app.installed
    /\ app' = install(app, options)
    /\ notes' = << >>
    /\ lastOp' = Record("install", "none", FALSE)
    /\ UNCHANGED <<state, subscribers, hasSubscribe, protect, issued, called,
                   ui, nav, ist, el, perm, ig, leave, unload, other>>

\* The Intent with external observers only.
Next ==
    \/ \E c \in ExternalObservers : Subscribe(c)
    \/ \E r \in 1..Len(issued) : CallHandle(r)
    \/ \E op \in Operations : \E a \in Args(op) : IntentCall(op, a)

Spec == Init /\ [][Next]_vars

(***************************************************************************)
(* Properties of the Intent and its subscriber list                        *)
(***************************************************************************)
\* The transition table as documented.
DocumentedTarget ==
    [start |-> "started", progress |-> "in-progress", wait |-> "waiting",
     block |-> "blocked", complete |-> "completed", fail |-> "failed",
     reset |-> "idle", replay |-> "idle"]

Regs(subs) == {subs[i].reg : i \in 1..Len(subs)}
Cbs(subs)  == [i \in 1..Len(subs) |-> subs[i].cb]

\* The list without the entry of registration r.
WithoutReg(subs, r) == SelectSeq(subs, LAMBDA e : e.reg # r)

\* C1 as stated: whatever the state and whoever observes, when a transition
\* method returns the Intent is in that method's documented target state.
C1_AlwaysInTarget ==
    lastOp.kind = "transition" => state = DocumentedTarget[lastOp.op]

\* C1 amended: from whatever state it is called, a transition method assigns
\* its documented target before the first observer runs, and the Intent is
\* still in that target when the method returns unless an observer called a
\* transition method from inside its callback; the Intent is then left in
\* the state the last callback invocation saw.
C1_TargetUnlessReentered ==
    lastOp.kind = "transition" =>
        /\ notes # << >> => notes[1].arg = DocumentedTarget[lastOp.op]
        /\ notes # << >> => state = notes[Len(notes)].arg
        /\ (\A i \in 1..Len(notes) : notes[i].trig = DocumentedTarget[lastOp.op])
              => state = DocumentedTarget[lastOp.op]

\* C1 witness: complete() was called with observers attached and left the
\* Intent in completed.
C1_Witness ==
    /\ lastOp.kind = "transition" /\ lastOp.op = "complete"
    /\ Len(notes) >= 2
    /\ state = "completed"

\* C2: when every registered observer only records what it is told, a
\* transition invokes each of them exactly once, in registration order, with
\* the target state, within the call.
C2_FanOutOnceInOrder ==
    [][ (/\ lastOp'.kind = "transition"
         /\ \A i \in 1..Len(subscribers) : subscribers[i].cb \in PlainObservers)
        => /\ Len(notes') = Len(subscribers)
           /\ \A i \in 1..Len(subscribers) :
                 /\ notes'[i].reg = subscribers[i].reg
                 /\ notes'[i].cb = subscribers[i].cb
                 /\ notes'[i].arg = DocumentedTarget[lastOp'.op]
           /\ \A i, j \in 1..Len(notes') : i < j => notes'[i].reg < notes'[j].reg
           /\ state' = DocumentedTarget[lastOp'.op] ]_vars

\* C2 witness: a transition has just notified three recording observers,
\* two of them registrations of different callbacks.
C2_Witness ==
    /\ lastOp.kind = "transition"
    /\ Len(notes) = 3
    /\ \A i \in 1..3 : notes[i].cb \in PlainObservers
    /\ notes[1].cb # notes[2].cb

\* C3 as stated: when an observer that detaches itself first thing in its
\* callback is notified, every observer registered after it is notified of
\* the same transition too.
C3_LaterObserversStillNotified ==
    [][ lastOp'.kind = "transition"
        => \A i, j \in 1..Len(subscribers) :
              (/\ i < j
               /\ subscribers[i].cb = "obsDetach"
               /\ \E n \in 1..Len(notes') : notes'[n].reg = subscribers[i].reg)
              => \E n \in 1..Len(notes') : notes'[n].reg = subscribers[j].reg ]_vars

\* C4 as stated: calling an unsubscribe handle that was called before
\* removes nothing.
C4_SecondCallIsNoOp ==
    [][ (lastOp'.kind = "unsubscribe" /\ lastOp'.again)
        => subscribers' = subscribers ]_vars

\* C5 as stated: the first call of the handle of a registration that is in
\* the list removes that registration, so the callbacks left, in order, are
\* those of the list without it.
C5_RemovesOwnRegistration ==
    [][ \A r \in 1..Len(issued) :
          (/\ r \notin called
           /\ r \in Regs(subscribers)
           /\ CallHandle(r))
          => Cbs(subscribers') = Cbs(WithoutReg(subscribers, r)) ]_vars

\* C11 as stated: every transition call notifies every observer that was
\* attached before the call exactly once in its own fan-out, whether or not
\* the target equals the state the Intent was in (so an observer attached
\* before start(), progress(), progress(), complete() is told four times),
\* and after complete() isCompleted is true and isActive is false.
C11_OneNotificationPerCall ==
    [][ lastOp'.kind = "transition"
        => /\ \A i \in 1..Len(subscribers) :
                 subscribers[i].cb \in PlainObservers =>
                    Cardinality({n \in 1..Len(notes') :
                                   /\ notes'[n].reg = subscribers[i].reg
                                   /\ notes'[n].trig = DocumentedTarget[lastOp'.op]}) = 1
           /\ lastOp'.op = "complete"
                 => isCompleted(state') /\ ~isActive(state') ]_vars

\* The Intent with useIntent and useIntentNavigation attached, next to the
\* two observers that change the Intent from inside their callbacks.  The
\* transition methods are called without annotation here.
AdapterNext ==
    \/ \E c \in ExternalObservers \ PlainObservers : Subscribe(c)
    \/ \E op \in Operations : IntentCall(op, "none")
    \/ UseIntent(TRUE)
    \/ \E op \in Operations : UseIntentCall(op, "none")
    \/ UseIntentUnmounted
    \/ UseIntentNavigation(TRUE, TRUE)
    \/ UseIntentNavigationUnmounted

AdapterSpec == Init /\ [][AdapterNext]_vars

(***************************************************************************)
(* Properties of the adapters                                              *)
(***************************************************************************)
\* C6 as stated: every observer callback runs with the Intent in the target
\* state of the transition whose fan-out called it.
C6_ObserverSeesTriggerTarget ==
    \A n \in 1..Len(notes) : notes[n].arg = notes[n].trig

\* C6 amended: every observer callback runs with the Intent in the target
\* state of the transition method entered most recently (the one whose
\* fan-out called it, unless an earlier observer of that fan-out called a
\* transition method itself); what useIntent and useIntentNavigation re-read
\* in their callbacks is that state.
C6_ObserverSeesLatestTarget ==
    /\ \A n \in 1..Len(notes) : notes[n].arg = notes[n].last
    /\ \A n \in 1..Len(notes) :
          (\A m \in (n + 1)..Len(notes) : notes[m].cb # notes[n].cb) =>
             /\ notes[n].cb = "useIntent" /\ lastOp.kind = "transition"
                   => ui.state = notes[n].arg
             /\ notes[n].cb = "useIntentNavigation"
                   => nav.isActive = isActive(notes[n].arg)

\* C6 witness: one transition to in-progress has run both adapters' callbacks.
C6_Witness ==
    /\ lastOp.kind = "transition" /\ state = "in-progress"
    /\ \E n \in 1..Len(notes) : notes[n].cb = "useIntent"
    /\ \E n \in 1..Len(notes) : notes[n].cb = "useIntentNavigation"
    /\ ui.state = "in-progress" /\ nav.isActive

\* reset() and replay(), on the Intent and through the wrappers of
\* useIntent, from every state, with a plain, a self-detaching and a
\* re-entering observer and the two adapters in the list.
ResetNext ==
    \/ \E c \in {"obsA", "obsDetach", "obsReenter"} : Subscribe(c)
    \/ \E op \in Operations : IntentCall(op, "none")
    \/ UseIntent(TRUE)
    \/ \E op \in {"reset", "replay"} : UseIntentCall(op, "none")
    \/ UseIntentNavigation(TRUE, TRUE)

ResetSpec == Init /\ [][ResetNext]_vars

\* C12 as stated: from every state, reset() and replay() both leave the
\* Intent in idle, both call the same callbacks in the same order with the
\* same state, and neither changes the observer list or the policy.
C12_ResetReplayChangeOnlyState ==
    LET r == Transition("reset", World)
        p == Transition("replay", World)
    IN  /\ r.state = "idle" /\ p.state = "idle"
        /\ r.notes = p.notes
        /\ r.subs = subscribers /\ p.subs = subscribers
        /\ r.protect = protect /\ p.protect = protect

\* Where the registration r stands in the list subs.
PositionOf(subs, r) == CHOOSE i \in 1..Len(subs) : subs[i].reg = r

\* The registrations of the detaching observer called in these calls.
Detached(calls) ==
    {calls[n].reg : n \in {k \in 1..Len(calls) : calls[k].cb = "obsDetach"}}

\* C12 amended: reset() and replay() have the same effect from every
\* state, and that effect is: the Intent is in idle and every call carries
\* idle, unless a callback called a transition method itself; the
\* callbacks called are observers of the list in list order, each once;
\* the observer list afterwards is the list before less the observers that
\* unsubscribed themselves in their callback, so it is the same list when
\* no observer does that, and then every observer is called; policy,
\* permission and the Intent's subscribe are untouched; the adapters that
\* were called hold idle, and so does useIntent after its wrapper.
C12_ResetReplaySameEffect ==
    [][ /\ Transition("reset", World) = Transition("replay", World)
        /\ lastOp'.op \in {"reset", "replay"} =>
              /\ (\A n \in 1..Len(notes') : notes'[n].trig = "idle") =>
                    /\ state' = "idle"
                    /\ \A n \in 1..Len(notes') : notes'[n].arg = "idle"
              /\ \A n \in 1..Len(notes') : notes'[n].reg \in Regs(subscribers)
              /\ \A n, m \in 1..Len(notes') :
                    n < m => PositionOf(subscribers, notes'[n].reg)
                               < PositionOf(subscribers, notes'[m].reg)
              /\ subscribers' =
                    SelectSeq(subscribers, LAMBDA e : e.reg \notin Detached(notes'))
              /\ ~Listed("obsDetach") =>
                    /\ subscribers' = subscribers
                    /\ Len(notes') = Len(subscribers)
              /\ protect' = protect /\ perm' = perm
              /\ hasSubscribe' = hasSubscribe
              /\ (lastOp'.kind = "wrapper" \/ Invoked("useIntent")') =>
                    ui'.state = state'
              /\ Invoked("useIntentNavigation")' =>
                    nav'.isActive = (state' \in {"started", "in-progress"}) ]_vars

\* C12 witness: replay() called through the wrapper of useIntent has
\* notified useIntent and another observer and a self-detaching observer
\* left the list during it; the Intent and useIntent are in idle.
C12_Witness ==
    /\ lastOp.kind = "wrapper" /\ lastOp.op = "replay"
    /\ state = "idle" /\ ui.state = "idle"
    /\ Len(notes) >= 2
    /\ Invoked("useIntent") /\ Invoked("obsDetach") /\ ~Listed("obsDetach")

\* C7: subscribing invokes no callback and changes no state; a transition
\* notifies only registrations made before it was called; the adapters read
\* the Intent themselves when they attach.
C7_NoNotificationOnSubscribe ==
    [][ /\ lastOp'.kind \in {"subscribe", "useIntent", "useIntentNavigation"}
            => notes' = << >> /\ state' = state
        /\ \A n \in 1..Len(notes') : notes'[n].reg \in Regs(subscribers)
        /\ lastOp'.kind = "useIntent"
            => ui'.state = state /\ ui'.message = <<"upload", " is ", state>>
        /\ lastOp'.kind = "useIntentNavigation"
            => nav'.isActive = (state \in {"started", "in-progress"}) ]_vars

\* C7 witness: useIntent attached to an Intent that had already completed;
\* it was told nothing and shows completed.
C7_Witness ==
    /\ lastOp.kind = "useIntent" /\ hasSubscribe
    /\ state = "completed"
    /\ notes = << >>
    /\ ui.state = "completed"

\* The documented truth table of the five predicates.
TruthTable(s, active, completed, failed, blocked, waiting) ==
    /\ active    <=> s \in {"started", "in-progress"}
    /\ completed <=> s = "completed"
    /\ failed    <=> s = "failed"
    /\ blocked   <=> s = "blocked"
    /\ waiting   <=> s = "waiting"
    /\ Cardinality({x \in {<<1, active>>, <<2, completed>>, <<3, failed>>,
                           <<4, blocked>>, <<5, waiting>>} : x[2]}) <= 1
    /\ s = "idle" => ~(active \/ completed \/ failed \/ blocked \/ waiting)

\* C8 as stated: the Intent's predicates follow the truth table, and the
\* computed refs of useIntent equal the Intent's predicates in every state.
C8_RefsEqualIntentPredicates ==
    /\ TruthTable(state, isActive(state), isCompleted(state), isFailed(state),
                  isBlocked(state), isWaiting(state))
    /\ ui.status # "none" =>
          /\ useIntentIsActive(ui) = isActive(state)
          /\ useIntentIsCompleted(ui) = isCompleted(state)
          /\ useIntentIsFailed(ui) = isFailed(state)
          /\ useIntentIsBlocked(ui) = isBlocked(state)
          /\ useIntentIsWaiting(ui) = isWaiting(state)

\* C8 amended: the Intent's predicates follow the truth table on the
\* Intent's state; the computed refs of useIntent follow it on useIntent's
\* own state ref, and equal the Intent's predicates when useIntent has just
\* been created or one of its wrapper methods has just returned.
C8_RefsFollowOwnState ==
    /\ TruthTable(state, isActive(state), isCompleted(state), isFailed(state),
                  isBlocked(state), isWaiting(state))
    /\ ui.status # "none" =>
          TruthTable(ui.state, useIntentIsActive(ui), useIntentIsCompleted(ui),
                     useIntentIsFailed(ui), useIntentIsBlocked(ui),
                     useIntentIsWaiting(ui))
    /\ lastOp.kind \in {"useIntent", "wrapper"} =>
          /\ ui.state = state
          /\ useIntentIsActive(ui) = isActive(state)
          /\ useIntentIsCompleted(ui) = isCompleted(state)
          /\ useIntentIsFailed(ui) = isFailed(state)
          /\ useIntentIsBlocked(ui) = isBlocked(state)
          /\ useIntentIsWaiting(ui) = isWaiting(state)

\* C8 witness: the wrapper progress() has returned and isActive is true.
C8_Witness ==
    /\ lastOp.kind = "wrapper" /\ lastOp.op = "progress"
    /\ state = "in-progress"
    /\ useIntentIsActive(ui) /\ ~useIntentIsCompleted(ui)

\* C9 as stated: while useIntentNavigation is subscribed to the Intent,
\* protectionActive is protectNavigation() and active, canLeave its negation.
C9_ProtectionTracksSubscribedIntent ==
    (hasSubscribe /\ nav.status = "mounted") =>
        /\ protectionActive(nav) = (protect /\ state \in {"started", "in-progress"})
        /\ canLeave(nav) = ~(protect /\ state \in {"started", "in-progress"})

\* C10 as stated: whenever they are read, protectionActive and canLeave are
\* derived from isActive() and protectNavigation() as they are at that
\* moment, with or without subscribe, mounted or unmounted.
C10_ProtectionNeverStale ==
    nav.status # "none" =>
        /\ protectionActive(nav) = (protect /\ isActive(state))
        /\ canLeave(nav) = ~(protect /\ isActive(state))

(***************************************************************************)
(* The three composables on one Intent                                     *)
(***************************************************************************)
\* The transition methods the example application calls.
ExampleOperations == {"start", "progress", "complete", "reset"}

\* The Intent with useIntent, useIntentState and useIntentNavigation, each
\* called in the setup of a component of its own.
ComposableNext ==
    \/ \E op \in ExampleOperations : IntentCall(op, "none")
    \/ UseIntent(TRUE)
    \/ \E op \in ExampleOperations : UseIntentCall(op, "none")
    \/ UseIntentUnmounted
    \/ UseIntentState(TRUE)
    \/ UseIntentStateUnmounted
    \/ UseIntentNavigation(TRUE, TRUE)
    \/ UseIntentNavigationUnmounted

ComposableSpec == Init /\ [][ComposableNext]_vars

\* C13: a freshly constructed Intent is idle, not active and not completed,
\* and a composable attached to an Intent that is idle (as it is from
\* construction on) starts from that: useIntent.state is idle and message is
\* what message() gives for idle, useIntentState has current idle, previous
\* null and transitions [idle], useIntentNavigation has canLeave true.
C13_FreshSnapshot ==
    [][ /\ lastOp.kind = "create" =>
              state = "idle" /\ ~isActive(state) /\ ~isCompleted(state)
        /\ (state = "idle" /\ lastOp'.kind = "useIntent") =>
              /\ ui'.state = "idle"
              /\ ui'.message = <<"upload", " is ", "idle">>
              /\ ~useIntentIsActive(ui') /\ ~useIntentIsCompleted(ui')
        /\ (state = "idle" /\ lastOp'.kind = "useIntentState") =>
              /\ ist'.current = "idle"
              /\ ist'.previous = "null"
              /\ ist'.transitions = <<"idle">>
        /\ (state = "idle" /\ lastOp'.kind = "useIntentNavigation") =>
              canLeave(nav') /\ ~protectionActive(nav') ]_vars

\* C13 witness: the three composables were attached to an idle Intent whose
\* policy protects navigation, useIntentNavigation last.
C13_Witness ==
    /\ lastOp.kind = "useIntentNavigation" /\ protect
    /\ state = "idle"
    /\ ui.status = "mounted" /\ ui.state = "idle"
    /\ ist.status = "mounted" /\ ist.transitions = <<"idle">> /\ ist.previous = "null"
    /\ nav.status = "mounted" /\ canLeave(nav)

\* C22: useIntentState keeps a faithful history.  transitions starts as
\* the one-element list of the Intent's state with previous null; afterwards
\* the list only grows at its end, a change of current appends the new
\* current and nothing else is appended; at all times the last element is
\* current, no two neighbours are equal, and previous is the element before
\* the last (null while there is only one).
C22_FaithfulHistory ==
    [][ /\ lastOp'.kind = "useIntentState" =>
              /\ ist'.transitions = <<state>>
              /\ ist'.previous = "null"
        /\ ist.status # "none" =>
              /\ Len(ist'.transitions) >= Len(ist.transitions)
              /\ SubSeq(ist'.transitions, 1, Len(ist.transitions)) = ist.transitions
              /\ (ist'.current # ist.current) =>
                    ist'.transitions = Append(ist.transitions, ist'.current)
              /\ (ist'.current = ist.current) => ist'.transitions = ist.transitions
        /\ ist'.status # "none" =>
              /\ Len(ist'.transitions) >= 1
              /\ ist'.transitions[Len(ist'.transitions)] = ist'.current
              /\ \A i \in 1..(Len(ist'.transitions) - 1) :
                    ist'.transitions[i] # ist'.transitions[i + 1]
              /\ ist'.previous = IF Len(ist'.transitions) = 1 THEN "null"
                                 ELSE ist'.transitions[Len(ist'.transitions) - 1] ]_vars

\* C22 witness: after start() then progress(), previous is started.
C22_Witness ==
    /\ ist.status = "mounted"
    /\ ist.transitions = <<"idle", "started", "in-progress">>
    /\ ist.previous = "started"
    /\ ist.current = "in-progress"

\* C16: once the component that called a composable has unmounted, the
\* composable's callback is not in the observer list and no transition
\* calls it, the timer of useIntentState is cleared and the beforeunload
\* listener of useIntentNavigation is removed; until then the callback is
\* listed (on an Intent with subscribe), the timer runs and the listener is
\* registered.
C16_UnmountDetaches ==
    /\ ui.status = "unmounted" => ~Listed("useIntent") /\ ~Invoked("useIntent")
    /\ ist.status = "unmounted" =>
          ~Listed("useIntentState") /\ ~Invoked("useIntentState") /\ ~ist.interval
    /\ nav.status = "unmounted" =>
          /\ ~Listed("useIntentNavigation") /\ ~Invoked("useIntentNavigation")
          /\ ~nav.listener
    /\ ui.status = "mounted" => (Listed("useIntent") <=> hasSubscribe)
    /\ ist.status = "mounted" =>
          (Listed("useIntentState") <=> hasSubscribe) /\ ist.interval
    /\ nav.status = "mounted" =>
          (Listed("useIntentNavigation") <=> hasSubscribe) /\ nav.listener

\* C16 witness: useIntentState and useIntentNavigation have unmounted, and
\* a transition made afterwards called useIntent's callback alone.
C16_Witness ==
    /\ hasSubscribe
    /\ ist.status = "unmounted" /\ nav.status = "unmounted"
    /\ lastOp.kind = "transition"
    /\ Len(notes) = 1 /\ notes[1].cb = "useIntent"
    /\ ist.current # state

(***************************************************************************)
(* All consumers on one Intent                                             *)
(***************************************************************************)
\* The Intent with the three composables and a button carrying
\* v-intent:loading, next to an observer that detaches itself when it is
\* called.
ConsumerNext ==
    \/ Subscribe("obsDetach")
    \/ \E op \in ExampleOperations : IntentCall(op, "none")
    \/ UseIntent(TRUE)
    \/ \E op \in ExampleOperations : UseIntentCall(op, "none")
    \/ UseIntentState(TRUE)
    \/ UseIntentNavigation(TRUE, TRUE)
    \/ VIntentMounted("loading", TRUE, "")
    \/ VIntentBeforeUnmount

ConsumerSpec == Init /\ [][ConsumerNext]_vars

\* What the classes of a v-intent element say about activity.
ShowsActive(e) ==
    CASE e.arg = "loading"  -> "intent-loading" \in e.classes
      [] e.arg = "disabled" -> "intent-disabled" \in e.classes
      [] OTHER              -> "intent-active" \in e.classes

\* C14 as stated: when a transition method of an Intent with subscribe has
\* returned, called on the Intent or through a useIntent wrapper, every
\* mounted consumer shows the Intent's state: useIntent.state and
\* useIntentState.current are the state, useIntentNavigation's active flag
\* and the element's class (and aria-busy) say whether it is active.
C14_ConsumersReflectIntent ==
    (hasSubscribe /\ lastOp.kind \in {"transition", "wrapper"}) =>
        /\ ui.status = "mounted" => ui.state = state
        /\ ist.status = "mounted" => ist.current = state
        /\ nav.status = "mounted" => nav.isActive = isActive(state)
        /\ (el.status = "mounted" /\ el.arg \in {"default", "loading"}) =>
              /\ ShowsActive(el) = isActive(state)
              /\ el.arg = "loading" => el.ariaBusy = String(isActive(state))

(***************************************************************************)
(* Permission                                                              *)
(***************************************************************************)
\* The Intent with useIntent and an IntentGuard, a permission that changes
\* behind allowed(), and the observer that completes the Intent from inside
\* its callback.
PermissionNext ==
    \/ Subscribe("obsReenter")
    \/ \E op \in Operations : IntentCall(op, "none")
    \/ UseIntent(TRUE)
    \/ \E op \in Operations : \E a \in Args(op) : UseIntentCall(op, a)
    \/ \E b \in BOOLEAN : PermissionChange(b)
    \/ \E invert \in BOOLEAN : IntentGuardMounted(invert, "undefined", FALSE)
    \/ IntentGuardRendered

PermissionSpec == Init /\ [][PermissionNext]_vars

\* C15: when useIntent has been created, and whenever one of its wrapper
\* methods has returned, its state, allowed and message refs are what
\* state(), allowed() and message() of the Intent give, on an Intent with
\* subscribe and on one without; useIntent can be created on either.
C15_WrapperRefreshesRefs ==
    /\ lastOp.kind \in {"useIntent", "wrapper"} =>
          /\ ui.status = "mounted"
          /\ ui.state = state
          /\ ui.allowed = perm
          /\ ui.message = <<"upload", " is ", state>>
    /\ lastOp.kind = "wrapper" =>
          state \in {DocumentedTarget[lastOp.op], "completed"}

\* C15 witness: on an Intent without subscribe whose permission had been
\* withdrawn, the wrapper progress() has returned.
C15_Witness ==
    /\ ~hasSubscribe /\ ~perm
    /\ lastOp.kind = "wrapper" /\ lastOp.op = "progress"
    /\ ui.state = "in-progress" /\ ~ui.allowed

\* C20 as stated: whenever useIntent.allowed is read it is what allowed()
\* returns at that moment, and whenever IntentGuard renders, the slot it
\* puts out is the one for what allowed() returns at that moment.
C20_AllowedAlwaysCurrent ==
    /\ ui.status = "mounted" => ui.allowed = perm
    /\ lastOp.kind \in {"guardMounted", "guardRendered"} =>
          ig.shown = (IF perm # ig.invert THEN "default" ELSE "fallback")

(***************************************************************************)
(* Navigation protection                                                   *)
(***************************************************************************)
\* The Intent with useIntentNavigation, created with or without a router,
\* the window's beforeunload event and the router's leave guard.
NavigationNext ==
    \/ \E op \in Operations : IntentCall(op, "none")
    \/ \E routerOk \in BOOLEAN : UseIntentNavigation(TRUE, routerOk)
    \/ UseIntentNavigationUnmounted
    \/ BeforeUnload
    \/ \E before, after, confirmed \in BOOLEAN :
          BeforeRouteLeave(before, after, confirmed)
    \/ \E resolved, confirmed \in BOOLEAN : BeforeLeaveSettled(resolved, confirmed)

NavigationSpec == Init /\ [][NavigationNext]_vars

\* The decision table from the confirmation on: what the guard calls after
\* window.confirm has given its answer.
Decided(answer, after) ==
    IF answer = "confirmed"
    THEN (IF after THEN <<"onAfterLeave">> ELSE << >>) \o <<"next()">>
    ELSE <<"next(false)">>

\* C17: each run of the leave guard follows the table.  Protection not
\* active when the guard is called (the Intent is not active or
\* protectNavigation() is false): onAfterLeave if given, then next(), and
\* nothing else: no onBeforeLeave, no confirmation.  Protection active:
\* onBeforeLeave is called first exactly when it was given, and the guard
\* waits for it; the confirmation comes only when it has resolved (a
\* rejection ends the run there); after the confirmation the guard calls
\* onAfterLeave if given and next() when the answer was to leave, and
\* next(false) alone when it was to stay.
C17_LeaveGuardTable ==
    [][ /\ lastOp'.kind = "routeLeave" =>
              IF ~(protect /\ state \in {"started", "in-progress"})
              THEN /\ leave'.pc = "done" /\ leave'.answer = "none"
                   /\ leave'.calls = (IF leave'.after THEN <<"onAfterLeave">>
                                      ELSE << >>) \o <<"next()">>
              ELSE IF leave'.before
              THEN /\ leave'.pc = "awaiting" /\ leave'.answer = "none"
                   /\ leave'.calls = <<"onBeforeLeave">>
              ELSE /\ leave'.pc = "done"
                   /\ leave'.answer \in {"confirmed", "cancelled"}
                   /\ leave'.calls =
                         <<"confirm">> \o Decided(leave'.answer, leave'.after)
        /\ lastOp'.kind = "routeLeaveResumed" =>
              /\ leave.pc = "awaiting" /\ leave.before
              /\ leave.calls = <<"onBeforeLeave">>
              /\ leave'.before = leave.before /\ leave'.after = leave.after
              /\ \/ /\ leave'.pc = "rejected"
                    /\ leave'.calls = leave.calls /\ leave'.answer = "none"
                 \/ /\ leave'.pc = "done"
                    /\ leave'.answer \in {"confirmed", "cancelled"}
                    /\ leave'.calls =
                          <<"onBeforeLeave", "confirm">>
                             \o Decided(leave'.answer, leave.after) ]_vars

\* C17 witness: a run with both hooks on an active, protected Intent that
\* was confirmed.
C17_Witness ==
    /\ leave.pc = "done" /\ leave.before /\ leave.after
    /\ leave.answer = "confirmed"
    /\ leave.calls = <<"onBeforeLeave", "confirm", "onAfterLeave", "next()">>

\* C18 as stated: handleBeforeUnload blocks the unload (preventDefault,
\* returnValue and return value confirmMessage) exactly when the Intent is
\* active and protectNavigation() is true when the event fires, and leaves
\* the event alone otherwise.
C18_BlocksExactlyWhenProtected ==
    lastOp.kind = "beforeunload" =>
        IF protect /\ state \in {"started", "in-progress"}
        THEN /\ unload.prevented
             /\ unload.returnValue = confirmMessage
             /\ unload.returned = confirmMessage
        ELSE /\ ~unload.prevented
             /\ unload.returnValue = "unset"
             /\ unload.returned = "undefined"

\* C19: with or without a router, useIntentNavigation returns with its
\* refs read from the Intent, its listener registered and its callback
\* subscribed (if the Intent has subscribe); and with or without a router,
\* a transition of an Intent it is subscribed to calls its callback and
\* leaves protectionActive and canLeave on the Intent's state and policy.
C19_TracksWithoutRouter ==
    /\ lastOp.kind = "useIntentNavigation" =>
          /\ nav.status = "mounted" /\ nav.listener
          /\ Listed("useIntentNavigation") <=> hasSubscribe
          /\ protectionActive(nav) = (protect /\ state \in {"started", "in-progress"})
    /\ (nav.status = "mounted" /\ hasSubscribe /\ lastOp.kind = "transition") =>
          /\ Invoked("useIntentNavigation")
          /\ protectionActive(nav) = (protect /\ state \in {"started", "in-progress"})
          /\ canLeave(nav) = ~(protect /\ state \in {"started", "in-progress"})

\* C19 witness: useIntentNavigation was created where registering the
\* guard threw, and a later progress() has switched protection on.
C19_Witness ==
    /\ nav.status = "mounted" /\ ~nav.guard
    /\ hasSubscribe /\ protect
    /\ lastOp.kind = "transition" /\ lastOp.op = "progress"
    /\ protectionActive(nav) /\ ~canLeave(nav)

(***************************************************************************)
(* Reads: an Intent whose adapters refresh themselves from it.             *)
(***************************************************************************)
ReadNext ==
    \/ \E op \in ExampleOperations : IntentCall(op, "none")
    \/ UseIntent(TRUE)
    \/ \E op \in ExampleOperations : UseIntentCall(op, "none")
    \/ UseIntentNavigation(TRUE, TRUE)
    \/ \E confirmed \in BOOLEAN : BeforeRouteLeave(FALSE, FALSE, confirmed)
    \/ BeforeUnload
    \/ \E arg \in {"default", "hidden"} : VIntentMounted(arg, TRUE, "")
    \/ VIntentUpdated
    \/ \E b \in BOOLEAN : PermissionChange(b)

ReadSpec == Init /\ [][ReadNext]_vars

\* The operations that only read the Intent.
ReadKinds == {"vIntentUpdated", "routeLeave", "beforeunload"}
\* The operations that read the Intent and then subscribe to it.
SetupKinds == {"useIntent", "useIntentNavigation", "vIntentMounted"}

\* C21: reading an Intent never changes it.  An updated hook
\* (updateElement), a leave guard run (sync) and a beforeunload event leave
\* state and the subscriber list as they are and call no callback; setting
\* up an adapter reads the Intent, leaves state as it is, calls no callback
\* and at most appends the adapter's own registration; and in a transition
\* every adapter callback (updateState, sync, updateElement) is run once
\* with the transition's target, and afterwards, also after the wrapper's
\* closing updateState, state is that target and the subscriber list is
\* what it was.
C21_ReadsChangeNothing ==
    [][ /\ lastOp'.kind \in ReadKinds =>
              /\ state' = state
              /\ subscribers' = subscribers
              /\ notes' = << >>
        /\ lastOp'.kind \in SetupKinds =>
              /\ state' = state
              /\ notes' = << >>
              /\ \/ subscribers' = subscribers
                 \/ /\ Len(subscribers') = Len(subscribers) + 1
                    /\ SubSeq(subscribers', 1, Len(subscribers)) = subscribers
        /\ lastOp'.kind \in {"transition", "wrapper"} =>
              /\ state' = DocumentedTarget[lastOp'.op]
              /\ subscribers' = subscribers
              /\ Len(notes') = Len(subscribers)
              /\ \A n \in 1..Len(notes') :
                    /\ notes'[n].reg = subscribers[n].reg
                    /\ notes'[n].arg = state' ]_vars

\* C21 witness: with useIntent, useIntentNavigation and v-intent all
\* subscribed and the Intent in progress, the element was updated again.
C21_Witness ==
    /\ lastOp.kind = "vIntentUpdated"
    /\ state = "in-progress"
    /\ Listed("useIntent") /\ Listed("useIntentNavigation") /\ Listed("vIntent")

(***************************************************************************)
(* useIntentState with its duration timer.                                 *)
(***************************************************************************)
TimerNext ==
    \/ \E op \in Operations : IntentCall(op, "none")
    \/ UseIntentState(TRUE)
    \/ UseIntentStateUnmounted
    \/ Tick

TimerSpec == Init /\ [][TimerNext]_vars

\* C23 as stated: duration is the time spent in the current state: while
\* useIntentState is mounted on an Intent it is subscribed to, duration
\* equals the timer periods elapsed since current last changed, whatever
\* the state.
C23_DurationIsTimeInState ==
    (ist.status = "mounted" /\ hasSubscribe) => ist.duration = ist.elapsed

(***************************************************************************)
(* An element under v-intent, with the permission changing and observers   *)
(* that detach or re-enter next to the directive's callback.               *)
(***************************************************************************)
ElementNext ==
    \/ \E c \in {"obsDetach", "obsReenter"} : Subscribe(c)
    \/ \E op \in ExampleOperations : IntentCall(op, "none")
    \/ \E b \in BOOLEAN : PermissionChange(b)
    \/ \E arg \in Modifiers : \E hasDisabled \in BOOLEAN : \E display \in Displays :
          VIntentMounted(arg, hasDisabled, display)
    \/ VIntentUpdated
    \/ VIntentBeforeUnmount

ElementSpec == Init /\ [][ElementNext]_vars

\* The element has just been written by updateElement: by the mounted or
\* the updated hook, or by the directive's callback, whose latest call in
\* the operation saw the state the Intent is in now.
Refreshed ==
    /\ el.status = "mounted"
    /\ \/ lastOp.kind \in {"vIntentMounted", "vIntentUpdated"}
       \/ /\ Invoked("vIntent")
          /\ \A n \in 1..Len(notes) :
                (notes[n].cb = "vIntent" /\
                 \A k \in (n + 1)..Len(notes) : notes[k].cb # "vIntent")
                    => notes[n].arg = state

\* C24: after mount and after every notification or updated hook the
\* element is its modifier's projection of (allowed, active).  disabled:
\* the disabled property (of an element that has one), aria-disabled
\* "true" and class intent-disabled exactly when not allowed or active;
\* loading: class intent-loading and aria-busy "true" exactly when active;
\* no argument: disabled and class intent-disabled exactly when not
\* allowed, class intent-active exactly when active.
C24_ElementIsProjection ==
    Refreshed =>
        LET active == state \in {"started", "in-progress"}
            off    == ~perm \/ active
        IN  /\ el.arg = "disabled" =>
                  /\ el.hasDisabled => (el.disabled <=> off)
                  /\ el.ariaDisabled = "true" <=> off
                  /\ el.ariaDisabled \in {"true", "false"}
                  /\ "intent-disabled" \in el.classes <=> off
            /\ el.arg = "loading" =>
                  /\ "intent-loading" \in el.classes <=> active
                  /\ el.ariaBusy = "true" <=> active
                  /\ el.ariaBusy \in {"true", "false"}
            /\ el.arg = "default" =>
                  /\ el.hasDisabled => (el.disabled <=> ~perm)
                  /\ "intent-disabled" \in el.classes <=> ~perm
                  /\ "intent-active" \in el.classes <=> active

\* C24 witness: a button under v-intent:disabled was notified of start()
\* while the Intent is allowed, and is disabled.
C24_Witness ==
    /\ el.status = "mounted" /\ el.arg = "disabled" /\ el.hasDisabled
    /\ lastOp.kind = "transition" /\ Invoked("vIntent")
    /\ perm /\ state = "started"
    /\ el.disabled /\ el.ariaDisabled = "true" /\ "intent-disabled" \in el.classes

\* C25 as stated: with arg hidden, after any sequence of permission
\* changes, notifications and updated hooks, the refreshed element has
\* display none and aria-hidden "true" exactly while the Intent is not
\* allowed; when it is allowed the inline display is the one the element
\* had before it was first hidden, the empty string included, and
\* aria-hidden is absent.  The display before the first hiding is the one
\* the element was created with, or the empty string that the mounted hook
\* writes on an element whose Intent is allowed.
C25_HiddenRestoresDisplay ==
    (Refreshed /\ el.arg = "hidden") =>
        IF ~perm
        THEN el.display = "none" /\ el.ariaHidden = "true"
        ELSE el.display \in {el.styled, ""} /\ el.ariaHidden = "absent"

\* The entries of the directive's callback in a subscriber list.
OfElement(subs) == SelectSeq(subs, LAMBDA e : e.cb = "vIntent")

\* C26: the directive holds at most one subscription per element: its
\* callback is in the list, once, exactly while the element is mounted on
\* an Intent that has subscribe, and exactly then the element carries the
\* handle; only the mounted hook adds it; beforeUnmount takes exactly that
\* one entry out, leaves every other entry in place and clears the handle
\* and the saved display; and once unmounted the element is never written
\* and its callback never called again.
C26_OneSubscriptionPerElement ==
    [][ /\ Len(OfElement(subscribers')) <= 1
        /\ Listed("vIntent")' <=> (el'.status = "mounted" /\ hasSubscribe)
        /\ el'.handle <=> (el'.status = "mounted" /\ hasSubscribe)
        /\ Len(OfElement(subscribers')) > Len(OfElement(subscribers)) =>
              lastOp'.kind = "vIntentMounted"
        /\ (el.status = "mounted" /\ el'.status = "unmounted") =>
              /\ subscribers' = SelectSeq(subscribers, LAMBDA e : e.cb # "vIntent")
              /\ Len(subscribers') = Len(subscribers) - (IF hasSubscribe THEN 1 ELSE 0)
              /\ ~el'.handle
              /\ el'.saved = "unset"
        /\ el.status = "unmounted" =>
              /\ el' = el
              /\ ~Invoked("vIntent")' ]_vars

\* C26 witness: the element was unmounted from an Intent with subscribe,
\* and a later transition notified the observers that are left.
C26_Witness ==
    /\ el.status = "unmounted" /\ hasSubscribe
    /\ lastOp.kind = "transition" /\ Len(notes) > 0
    /\ ~Listed("vIntent")

(***************************************************************************)
(* IntentGuard with its props and slots, on an Intent whose permission     *)
(* changes.                                                                *)
(***************************************************************************)
GuardNext ==
    \/ \E op \in ExampleOperations : IntentCall(op, "none")
    \/ \E b \in BOOLEAN : PermissionChange(b)
    \/ \E invert \in BOOLEAN : \E fallback \in Fallbacks : \E hasFallback \in BOOLEAN :
          IntentGuardMounted(invert, fallback, hasFallback)
    \/ IntentGuardRendered
    \/ \E invert \in BOOLEAN : \E fallback \in Fallbacks :
          IntentGuardPropsChanged(invert, fallback)

GuardSpec == Init /\ [][GuardNext]_vars

\* C27 as stated: whenever IntentGuard renders, it puts out the default
\* slot exactly when (intent.allowed() XOR invert) is true at that moment;
\* otherwise the fallback slot if the parent filled it, else the text of
\* the fallback prop if one was passed, else the default message; and
\* never both.
C27_GuardRendersByPermission ==
    (ig.status = "mounted" /\
     lastOp.kind \in {"guardMounted", "guardRendered", "guardProps"}) =>
        IF perm # ig.invert
        THEN ig.content = <<"slot", "default">>
        ELSE /\ ig.content # <<"slot", "default">>
             /\ ig.content =
                   IF ig.hasFallback THEN <<"slot", "fallback">>
                   ELSE IF ig.fallback \notin {"undefined", ""}
                   THEN <<"div.intent-guard-fallback", ig.fallback>>
                   ELSE <<"div.intent-guard-fallback",
                          "You don't have permission to perform this action">>

(***************************************************************************)
(* IntentProgress: the useIntentState it sets up, next to an observer that *)
(* detaches itself.                                                        *)
(***************************************************************************)
ProgressNext ==
    \/ Subscribe("obsDetach")
    \/ \E op \in Operations : IntentCall(op, "none")
    \/ UseIntentState(TRUE)
    \/ UseIntentStateUnmounted

ProgressSpec == Init /\ [][ProgressNext]_vars

\* The percentage documented for a state when there are no steps.
PercentageOf ==
    [s \in IntentState |->
        CASE s = "started" -> 25
          [] s \in {"in-progress", "waiting"} -> 50
          [] s = "completed" -> 100
          [] s \in {"idle", "failed", "blocked"} -> 0]

\* C28 as stated: what an IntentProgress mounted on an Intent with
\* subscribe displays follows the Intent through every transition: with no
\* steps the percentage is the one documented for the Intent's state; with
\* steps all are pending in idle, all completed in completed, and
\* otherwise step 0 is active and the rest pending.
C28_ProgressFollowsIntent ==
    (ist.status = "mounted" /\ hasSubscribe) =>
        /\ progressPercentage(ist.current, 0) = PercentageOf[state]
        /\ \A n \in 1..MaxSteps : \A index \in 0..(n - 1) :
              getStepClass(ist.current, n, index) =
                 IF state = "idle" THEN "pending"
                 ELSE IF state = "completed" THEN "completed"
                 ELSE IF index = 0 THEN "active" ELSE "pending"

(***************************************************************************)
(* IntentMessage: the useIntent it sets up, next to an observer that       *)
(* detaches itself.                                                        *)
(***************************************************************************)
MessageNext ==
    \/ Subscribe("obsDetach")
    \/ \E op \in Operations : IntentCall(op, "none")
    \/ UseIntent(TRUE)
    \/ UseIntentUnmounted

MessageSpec == Init /\ [][MessageNext]_vars

\* C29 as stated: an IntentMessage mounted on an Intent with subscribe is
\* rendered exactly when showWhen is always, or active and the Intent is
\* started or in-progress, or blocked and the Intent is blocked, or failed
\* and the Intent is failed, and it displays the Intent's message, through
\* every transition.
C29_MessageFollowsIntent ==
    (ui.status = "mounted" /\ hasSubscribe) =>
        /\ \A showWhen \in ShowWhen :
              shouldShow(showWhen, ui) <=>
                 \/ showWhen = "always"
                 \/ showWhen = "active" /\ state \in {"started", "in-progress"}
                 \/ showWhen = "blocked" /\ state = "blocked"
                 \/ showWhen = "failed" /\ state = "failed"
        /\ displayMessage(ui) = message(state)

(***************************************************************************)
(* An application that installs the plugin and runs an Intent.             *)
(***************************************************************************)
PluginNext ==
    \/ \E options \in PluginOptions : Install(options)
    \/ \E op \in ExampleOperations : IntentCall(op, "none")

PluginSpec == Init /\ [][PluginNext]_vars

\* C30: once install has run, exactly the three components are
\* registered, as <prefix>Guard, <prefix>Message and <prefix>Progress with
\* the prefix passed or else 'Intent'; the directive is registered as
\* 'intent' and no other; the options are provided under vueIntentConfig;
\* and vueIntentRouter is provided, with the router, if and only if a
\* router was passed.
C30_InstallRegisters ==
    app.installed =>
        LET prefix == IF app.args.components.given /\
                         app.args.components.prefix # "undefined"
                      THEN app.args.components.prefix ELSE "Intent"
        IN  /\ app.components = {<<<<prefix, "Guard">>, "IntentGuard">>,
                                  <<<<prefix, "Message">>, "IntentMessage">>,
                                  <<<<prefix, "Progress">>, "IntentProgress">>}
            /\ Cardinality(app.components) = 3
            /\ app.directives = {<<"intent", "vIntent">>}
            /\ "vueIntentConfig" \in app.provided
            /\ app.config = app.args
            /\ "vueIntentRouter" \in app.provided <=> app.args.router # "undefined"
            /\ "vueIntentRouter" \in app.provided => app.router = app.args.router
            /\ app.provided \subseteq {"vueIntentConfig", "vueIntentRouter"}

\* C30 witness: installed with prefix 'My' and a router.
C30_Witness ==
    /\ app.installed
    /\ app.args.components.prefix = "My"
    /\ app.args.router = "router"
    /\ <<<<"My", "Guard">>, "IntentGuard">> \in app.components
    /\ "vueIntentRouter" \in app.provided

(***************************************************************************)
(* Re-entrant fan-out: the three composables on one Intent, next to an     *)
(* observer that calls complete() when told of started and one that        *)
(* detaches itself.                                                        *)
(***************************************************************************)
ReentrantNext ==
    \/ \E c \in {"obsReenter", "obsDetach"} : Subscribe(c)
    \/ \E op \in ExampleOperations : IntentCall(op, "none")
    \/ UseIntent(TRUE)
    \/ UseIntentState(TRUE)
    \/ UseIntentNavigation(TRUE, TRUE)

ReentrantSpec == Init /\ [][ReentrantNext]_vars

\* The latest operation was a transition in whose fan-out an observer
\* called a further transition.
Reentered ==
    /\ lastOp.kind = "transition"
    /\ \E n \in 1..Len(notes) : notes[n].trig # DocumentedTarget[lastOp.op]

\* C31 as stated, with "that transition's own resulting state" read as
\* the state the Intent has when the call is made (C6): when a transition
\* in whose fan-out an observer called a further transition has returned,
\* the projection of every attached consumer is the Intent's final state,
\* and every attached observer was called exactly once in each of the two
\* fan-outs, with the state of that moment.
C31_EachTransitionOnce ==
    Reentered =>
        /\ Listed("useIntent") => ui.state = state
        /\ Listed("useIntentState") => ist.current = state
        /\ Listed("useIntentNavigation") => nav.isActive = isActive(state)
        /\ \A n \in 1..Len(notes) : notes[n].arg = notes[n].last
        /\ \A i \in 1..Len(subscribers) : \A target \in {"started", "completed"} :
              Cardinality({n \in 1..Len(notes) :
                             /\ notes[n].reg = subscribers[i].reg
                             /\ notes[n].trig = target}) = 1

\* The calls of next in a run of the guard.
NextCalls(calls) == SelectSeq(calls, LAMBDA c : c \in {"next()", "next(false)"})

\* C32 as stated: every run of the leave guard that has ended, with
\* onBeforeLeave absent, resolved or rejected, has called next exactly
\* once.
C32_NextExactlyOnce ==
    leave.pc \in {"done", "rejected"} => Len(NextCalls(leave.calls)) = 1

\* C33 as stated: the guard asks for confirmation only if protection is
\* active when the confirmation is shown: a run that resumes after
\* onBeforeLeave with the Intent no longer active and protected goes on to
\* next() with no confirmation.
C33_ConfirmOnlyWhileProtected ==
    (lastOp.kind = "routeLeaveResumed" /\ leave.pc = "done" /\
     ~(protect /\ state \in {"started", "in-progress"})) =>
        /\ \A i \in 1..Len(leave.calls) : leave.calls[i] # "confirm"
        /\ leave.calls[Len(leave.calls)] = "next()"

\* A run of the guard that did not go straight to next().
Intercepted ==
    \/ leave.pc = "awaiting"
    \/ \E i \in 1..Len(leave.calls) : leave.calls[i] = "confirm"

\* C34: the guard decides on the Intent as it is when the guard is called:
\* it leaves its refs equal to isActive() and protectNavigation() of that
\* moment and intercepts the navigation exactly when the Intent is active
\* and protected then, whether or not the Intent has subscribe and whether
\* or not the callback of useIntentNavigation is still subscribed.
C34_GuardDecidesOnCurrentState ==
    lastOp.kind = "routeLeave" =>
        /\ nav.isActive = (state \in {"started", "in-progress"})
        /\ nav.protectNavigation = protect
        /\ Intercepted <=> (protect /\ state \in {"started", "in-progress"})
        /\ ~Intercepted => leave.calls[Len(leave.calls)] = "next()"

\* C34 witness: on an Intent without subscribe, started after
\* useIntentNavigation was set up, the guard asked for confirmation.
C34_Witness ==
    /\ lastOp.kind = "routeLeave"
    /\ ~hasSubscribe /\ protect /\ state = "started"
    /\ leave.pc = "done" /\ leave.calls[1] = "confirm"

\* C35: useIntentState records only changes of state.  A transition that
\* notifies it of the state it already holds as current leaves all of it
\* as it was: current, previous, transitions, the duration and the start
\* of the duration; so no two neighbours in transitions are equal and
\* previous is never current.
C35_RecordsOnlyChanges ==
    [][ /\ (lastOp'.kind = "transition" /\ Listed("useIntentState") /\
            Invoked("useIntentState")' /\ state' = ist.current) => ist' = ist
        /\ ist'.status # "none" =>
              /\ \A i \in 1..(Len(ist'.transitions) - 1) :
                    ist'.transitions[i] # ist'.transitions[i + 1]
              /\ ist'.previous # ist'.current ]_vars

\* C35 witness: useIntentState was just notified, and the time counted in
\* the current state has not started again: the notification was of the
\* state it already held.
C35_Witness ==
    /\ lastOp.kind = "transition" /\ Invoked("useIntentState")
    /\ ist.status = "mounted"
    /\ ist.current = "in-progress" /\ state = "in-progress"
    /\ ist.elapsed > 0 /\ ist.duration = ist.elapsed
    /\ ist.transitions = <<"idle", "in-progress">>

\* C36 as stated: the percentage a mounted IntentProgress puts out as bar
\* width and aria-valuenow is an integer between 0 and 100, whatever the
\* state and however many steps it was given.
C36_PercentageInRange ==
    ist.status = "mounted" =>
        \A n \in 0..MaxSteps : progressPercentage(ist.current, n) \in 0..100

(***************************************************************************)
(* A v-intent element whose binding changes between two Intents.           *)
(***************************************************************************)
RebindNext ==
    \/ \E op \in ExampleOperations : IntentCall(op, "none")
    \/ \E op \in ExampleOperations : OtherCall(op)
    \/ \E arg \in {"loading", "default"} : VIntentMounted(arg, TRUE, "")
    \/ \E arg \in {"loading", "default"} : VIntentMountedUnbound(arg, TRUE, "")
    \/ \E bound \in {"intent", "other"} : VIntentRebound(bound)
    \/ VIntentUpdated
    \/ VIntentBeforeUnmount

RebindSpec == Init /\ [][RebindNext]_vars

\* C37 as stated: the element tracks the Intent bound to it now.  After a
\* transition of either Intent (both with subscribe), an element whose
\* latest binding holds the second Intent shows that Intent's activity,
\* and one bound to the first Intent after mounting with none shows the
\* first one's.
C37_TracksBoundIntent ==
    (hasSubscribe /\ el.status = "mounted" /\
     lastOp.kind \in {"transition", "otherTransition"}) =>
        /\ el.bound = "other" =>
              ShowsActive(el) = (other.state \in {"started", "in-progress"})
        /\ el.bound = "intent" =>
              ShowsActive(el) = (state \in {"started", "in-progress"})

(***************************************************************************)
(* The composables called in a component's setup or outside any component. *)
(***************************************************************************)
LeakNext ==
    \/ \E op \in {"start", "reset"} : IntentCall(op, "none")
    \/ \E inComponent \in BOOLEAN : UseIntent(inComponent)
    \/ UseIntentUnmounted
    \/ \E inComponent \in BOOLEAN : UseIntentState(inComponent)
    \/ UseIntentStateUnmounted
    \/ \E inComponent \in BOOLEAN : UseIntentNavigation(inComponent, TRUE)
    \/ UseIntentNavigationUnmounted

LeakSpec == Init /\ [][LeakNext]_vars

\* C38 as stated: no composable leaks.  The only step that gives up what
\* a composable registered is its unmount hook; so whenever a composable
\* holds a registration (its callback in the observer list, its
\* beforeunload listener, its running interval) that hook is there to run:
\* the composable is mounted in a component.
C38_DisposalReachable ==
    /\ Listed("useIntent") => ui.status = "mounted"
    /\ Listed("useIntentState") => ist.status = "mounted"
    /\ ist.interval => ist.status = "mounted"
    /\ Listed("useIntentNavigation") => nav.status = "mounted"
    /\ nav.listener => nav.status = "mounted"

====
